---- MODULE Spec2Model ----
(***************************************************************************)
(* State-machine model of the "Loot Goblin" server: GameStateService,      *)
(* CombatService, StatsService, EnemyService (+ EnemyComponent),           *)
(* LootService and RoomTriggerComponent.                                    *)
(*                                                                          *)
(* One action is one engine callback (a RemoteEvent handler, a             *)
(* PlayerAdded/PlayerRemoving handler, a Touched handler, a Heartbeat AI    *)
(* step, a resumed task.delay/task.wait thread).  Handlers run to           *)
(* completion (single Luau thread), so each action computes the state at    *)
(* the handler's end from the state at its start.  Handlers are written as  *)
(* operators from a state record to a state record so that the calls one    *)
(* handler makes into other services keep the order they have in the        *)
(* source.  Signal.Fire (@rbxts/signal) runs the connected handlers         *)
(* synchronously inside Fire.                                               *)
(*                                                                          *)
(* Time is discrete, one tick = 0.5 s (every delay in the services is a     *)
(* multiple of it).  A time stamp of the source (os.clock()) is kept as     *)
(* its age, saturated at the value its comparison needs.                    *)
(*                                                                          *)
(* attackSpeed is kept in hundredths (1.0 = 100); every other stat, health  *)
(* and damage are in the source's units.                                    *)
(*                                                                          *)
(* The environment is bounded (the Max... definitions): the clients send    *)
(* what they like, but a fight that has drawn blood is fought out before    *)
(* anything else happens, a swing has a target, enemies land hits only on   *)
(* a player who is alone in the server, and the clock moves from one due    *)
(* timer to the next.  Both EnemyService implementations of the repository  *)
(* are covered: the build holds one of them (enemyImpl).                    *)
(***************************************************************************)
EXTENDS Integers, Sequences, FiniteSets, Bags, TLC

VARIABLES
    phase,              \* GameStateService.phase
    readyPlayers,       \* GameStateService.readyPlayers
    currentRoomIndex,   \* GameStateService.currentRoomIndex
    totalRooms,         \* GameStateService.totalRooms
    rooms,              \* GameStateService.rooms (1-based sequence; roomId i stands for `room_${i}`)
    countdownThread,    \* GameStateService.countdownThread, with the loop position of startCountdown
    isAdvancingRoom,    \* GameStateService.isAdvancingRoom
    lastReadyToggle,    \* GameStateService.lastReadyToggle, as age in ticks
    guardTimers,        \* pending task.delay(0.5) callbacks of advanceToNextRoom (ticks left)
    bossTimers,         \* pending task.delay(2) callbacks of handleEnemyKilled (ticks left)
    players,            \* Players.GetPlayers()
    playerStates,       \* CombatService.playerStates
    pvpEnabled,         \* CombatService.pvpEnabled
    playerStats,        \* StatsService.playerStats
    activeEnemies,      \* EnemyService.activeEnemies / the attached EnemyComponents
    nextEnemyId,        \* EnemyService.nextEnemyId
    activeLoot,         \* LootService.activeLoot (loot slot -> ActiveLoot)
    doorCanCollide,     \* CanCollide of the part tagged Door with RoomIndex = i
    touchedPlayers,     \* RoomTriggerComponent.touchedPlayers
    enemyImpl,          \* which EnemyService the build holds: "service" or "component"
    templates,          \* names of the Models in ServerStorage.Enemies
    roomParts,          \* RoomIndex attributes of the parts tagged "Room", in GetTagged order
    sinceAttack,        \* history: age in ticks of each Player's last accepted attack
    events              \* what the last handler broadcast, in order (CountdownTick, PhaseChanged,
                        \* RoomCleared, EntityDied, LootSpawned, StatGained, and from
                        \* modifyStat also StatsUpdated and the text it warns with)

vars == << phase, readyPlayers, currentRoomIndex, totalRooms, rooms, countdownThread,
           isAdvancingRoom, lastReadyToggle, guardTimers, bossTimers, players,
           playerStates, pvpEnabled, playerStats, activeEnemies, nextEnemyId,
           activeLoot, doorCanCollide, touchedPlayers, enemyImpl, templates, roomParts,
           sinceAttack,
           events >>

(***************************************************************************)
(* Bounds of the model.                                                     *)
(***************************************************************************)
\* enemy ids handed out in one server session
MaxEnemyId == 4
\* loot parts lying in the world at once
MaxLoot == 3
\* players that are alive and below full health at once
MaxWounded == 1
\* players in the server while the enemies land their hits
MaxEngaged == 1
\* players holding a stat above its base value at once
MaxBoosted == 1
\* players standing in the room trigger at once
MaxTouching == 1
\* what direct calls of modifyStat may add to a stat in all
MaxStatGain == 10

\* the Player objects that may join (UserId = the number)
AllPlayers == {1, 2}

(***************************************************************************)
(* Program constants.                                                       *)
(***************************************************************************)
Phases == {"Lobby", "Countdown", "Dungeon", "Boss", "PvPCountdown", "PvP", "Victory"}

LOBBY_COUNTDOWN == 10
PVP_COUNTDOWN == 3
VICTORY_DURATION == 10
MIN_PLAYERS_TO_START == 1
MIN_ROOMS == 3
MAX_ROOMS == 4

BASE_STATS == [damage |-> 10, attackSpeed |-> 100, moveSpeed |-> 16, maxHealth |-> 100]
MAX_STAT_VALUES == [damage |-> 10000, attackSpeed |-> 1000, moveSpeed |-> 100, maxHealth |-> 100000]
StatNames == {"damage", "attackSpeed", "moveSpeed", "maxHealth"}

PLAYER_health == 100

\* ticks (0.5 s) of the source's delays
SECOND == 2
READY_TOGGLE_LIMIT == 1
ATTACK_COOLDOWN == 1
ROOM_GUARD_DELAY == 1
BOSS_DELAY == 4

NoThread == [active |-> FALSE, i |-> 0, wait |-> 0, onComplete |-> "none"]
NoWinner == 0

Min(a, b) == IF a < b THEN a ELSE b
Max(a, b) == IF a > b THEN a ELSE b
Clamp(x, lo, hi) == Min(Max(x, lo), hi)

(***************************************************************************)
(* The workspace the place file provides (CollectionService tags).          *)
(***************************************************************************)
\* number of parts tagged "Room" in the default place: one part per room
RoomParts == 3
DefaultRoomParts == [k \in 1 .. RoomParts |-> k - 1]
\* the dungeon rooms the place has: the distinct RoomIndex values of its Room parts
ExistingRooms(parts) == {parts[k] : k \in DOMAIN parts}
\* EnemyType attribute of the EnemySpawn parts whose RoomId is room_<i>, in GetTagged order;
\* spawn points stand inside rooms, so a room the place lacks has none
RoomSpawns(parts, i) ==
    IF i \notin ExistingRooms(parts) THEN << >>
    ELSE IF i = 0 THEN << "Skeleton" >> ELSE << "Goblin" >>
\* RoomIndex attributes of the parts tagged "Door"
DoorIndexes == 0 .. (MAX_ROOMS - 1)
\* the parts tagged "RoomTrigger" stand behind the doors of the dungeon rooms, which
\* the map joins to the lobby; the boss arena is reached by teleport only
TriggerPhases == {"Lobby", "Dungeon"}


\* health / damage of ENEMIES and BOSS (shared/config/enemies.ts)
ENEMIES == [Goblin   |-> [health |-> 30,  damage |-> 8],
            Skeleton |-> [health |-> 50,  damage |-> 12],
            Ogre     |-> [health |-> 100, damage |-> 20]]
BOSS == [health |-> 500, damage |-> 25]
BOSS_TEMPLATE_NAME == "Boss"
\* a place file with a template for every enemy type and for the boss
AllTemplates == DOMAIN ENEMIES \cup {BOSS_TEMPLATE_NAME}

\* shared/config/loot.ts; dropChance in percent, attackSpeed amounts in hundredths
LOOT_TABLES ==
    [Goblin   |-> [dropChance |-> 40,
                   rarityWeights |-> [Common |-> 70, Rare |-> 25, Epic |-> 5],
                   drops |-> << [stat |-> "damage",      weight |-> 3, min |-> 1,  max |-> 2],
                                [stat |-> "attackSpeed", weight |-> 2, min |-> 5,  max |-> 10],
                                [stat |-> "moveSpeed",   weight |-> 1, min |-> 1,  max |-> 2] >>],
     Skeleton |-> [dropChance |-> 50,
                   rarityWeights |-> [Common |-> 60, Rare |-> 30, Epic |-> 10],
                   drops |-> << [stat |-> "damage",      weight |-> 3, min |-> 2,  max |-> 3],
                                [stat |-> "attackSpeed", weight |-> 2, min |-> 5,  max |-> 15],
                                [stat |-> "maxHealth",   weight |-> 2, min |-> 5,  max |-> 10] >>],
     Ogre     |-> [dropChance |-> 70,
                   rarityWeights |-> [Common |-> 40, Rare |-> 40, Epic |-> 20],
                   drops |-> << [stat |-> "damage",      weight |-> 2, min |-> 3,  max |-> 5],
                                [stat |-> "maxHealth",   weight |-> 3, min |-> 10, max |-> 20],
                                [stat |-> "moveSpeed",   weight |-> 1, min |-> 1,  max |-> 2] >>],
     Boss     |-> [dropChance |-> 100,
                   rarityWeights |-> [Common |-> 0, Rare |-> 50, Epic |-> 50],
                   drops |-> << [stat |-> "damage",      weight |-> 1, min |-> 5,  max |-> 10],
                                [stat |-> "attackSpeed", weight |-> 1, min |-> 10, max |-> 20],
                                [stat |-> "maxHealth",   weight |-> 1, min |-> 15, max |-> 30],
                                [stat |-> "moveSpeed",   weight |-> 1, min |-> 2,  max |-> 4] >>]]
\* RARITY_MULTIPLIERS, doubled (1.0, 1.5, 2.0)
RARITY_MULTIPLIERS == [Common |-> 2, Rare |-> 3, Epic |-> 4]
BOSS_DROP_COUNT == [min |-> 2, max |-> 3]

\* values of math.random(), in percent, the model draws
DropRolls == {45}
StatRolls == {75}
RarityRolls == {0}
AmountRolls == {0}

EmptyMap == [x \in {} |-> 0]
NoRoom == -1

(***************************************************************************)
(* The state record the handlers work on.                                   *)
(***************************************************************************)
State ==
    [phase |-> phase, readyPlayers |-> readyPlayers, currentRoomIndex |-> currentRoomIndex,
     totalRooms |-> totalRooms, rooms |-> rooms, countdownThread |-> countdownThread,
     isAdvancingRoom |-> isAdvancingRoom, lastReadyToggle |-> lastReadyToggle,
     guardTimers |-> guardTimers, bossTimers |-> bossTimers, players |-> players,
     playerStates |-> playerStates, pvpEnabled |-> pvpEnabled, playerStats |-> playerStats,
     activeEnemies |-> activeEnemies, nextEnemyId |-> nextEnemyId, activeLoot |-> activeLoot,
     doorCanCollide |-> doorCanCollide, touchedPlayers |-> touchedPlayers,
     enemyImpl |-> enemyImpl, templates |-> templates, roomParts |-> roomParts,
     sinceAttack |-> sinceAttack,
     events |-> << >>]

Apply(s) ==
    /\ phase' = s.phase
    /\ readyPlayers' = s.readyPlayers
    /\ currentRoomIndex' = s.currentRoomIndex
    /\ totalRooms' = s.totalRooms
    /\ rooms' = s.rooms
    /\ countdownThread' = s.countdownThread
    /\ isAdvancingRoom' = s.isAdvancingRoom
    /\ lastReadyToggle' = s.lastReadyToggle
    /\ guardTimers' = s.guardTimers
    /\ bossTimers' = s.bossTimers
    /\ players' = s.players
    /\ playerStates' = s.playerStates
    /\ pvpEnabled' = s.pvpEnabled
    /\ playerStats' = s.playerStats
    /\ activeEnemies' = s.activeEnemies
    /\ nextEnemyId' = s.nextEnemyId
    /\ activeLoot' = s.activeLoot
    /\ doorCanCollide' = s.doorCanCollide
    /\ touchedPlayers' = s.touchedPlayers
    /\ enemyImpl' = s.enemyImpl
    /\ templates' = s.templates
    /\ roomParts' = s.roomParts
    /\ sinceAttack' = s.sinceAttack
    /\ events' = s.events

\* Events.X.broadcast / Events.X.fire / Signal.Fire, recorded in order
Emit(s, type, a, b) == [s EXCEPT !.events = Append(@, [type |-> type, a |-> a, b |-> b])]

(***************************************************************************)
(* StatsService (getters) and CombatService (player state).                 *)
(***************************************************************************)
getMaxHealth(s, p) ==
    IF p \in DOMAIN s.playerStats THEN s.playerStats[p].maxHealth ELSE BASE_STATS.maxHealth

getPlayerDamage(s, p) ==
    IF p \in DOMAIN s.playerStats THEN s.playerStats[p].damage ELSE BASE_STATS.damage

getAttackSpeed(s, p) ==
    IF p \in DOMAIN s.playerStats THEN s.playerStats[p].attackSpeed ELSE BASE_STATS.attackSpeed

isPlayerAlive(s, p) == p \in DOMAIN s.playerStates /\ s.playerStates[p].isAlive

getAlivePlayers(s) == {p \in DOMAIN s.playerStates : s.playerStates[p].isAlive}

CombatInitializePlayer(s, p) ==
    IF p \in DOMAIN s.playerStates THEN s
    ELSE [s EXCEPT !.playerStates = @ @@ (p :> [health |-> PLAYER_health,
                                                lastAttackTime |-> ATTACK_COOLDOWN,
                                                isAlive |-> TRUE,
                                                invulnerable |-> FALSE])]

CombatCleanupPlayer(s, p) ==
    [s EXCEPT !.playerStates = [q \in DOMAIN @ \ {p} |-> @[q]]]

StatsInitializePlayer(s, p) ==
    IF p \in DOMAIN s.playerStats THEN s
    ELSE [s EXCEPT !.playerStats = @ @@ (p :> BASE_STATS)]

StatsCleanupPlayer(s, p) ==
    [s EXCEPT !.playerStats = [q \in DOMAIN @ \ {p} |-> @[q]]]

healPlayer(s, p, amount) ==
    IF isPlayerAlive(s, p)
    THEN [s EXCEPT !.playerStates[p].health = Min(@ + amount, getMaxHealth(s, p))]
    ELSE s

onMaxHealthChanged(s, p, newMaxHealth) ==
    IF p \in DOMAIN s.playerStates /\ s.playerStates[p].health > newMaxHealth
    THEN [s EXCEPT !.playerStates[p].health = newMaxHealth]
    ELSE s

\* lastAttackTime = 0 (the epoch) is an age past every cooldown
resetPlayer(s, p) ==
    IF p \in DOMAIN s.playerStates
    THEN [s EXCEPT !.playerStates[p] = [health |-> getMaxHealth(s, p),
                                        lastAttackTime |-> ATTACK_COOLDOWN,
                                        isAlive |-> TRUE,
                                        invulnerable |-> FALSE]]
    ELSE s

RECURSIVE ResetEach(_, _)
ResetEach(s, ps) ==
    IF ps = {} THEN s
    ELSE LET p == CHOOSE q \in ps : TRUE IN ResetEach(resetPlayer(s, p), ps \ {p})

resetAllPlayers(s) == ResetEach(s, DOMAIN s.playerStates)

\* mutant: the flag is switched on whatever the argument
setPvPEnabled_AlwaysOn(s, enabled) == [s EXCEPT !.pvpEnabled = TRUE]

setPvPEnabled(s, enabled) == [s EXCEPT !.pvpEnabled = enabled]

\* A Luau value handed to modifyStat as amount: its type, for a number whether it is
\* finite, nan or inf, and the finite value (for inf the sign).
LuauNumber(n) == [type |-> "number", kind |-> "finite", v |-> n]
LuauNaN == [type |-> "number", kind |-> "nan", v |-> 0]
LuauHuge == [type |-> "number", kind |-> "inf", v |-> 1]
LuauMinusHuge == [type |-> "number", kind |-> "inf", v |-> -1]
LuauNil == [type |-> "nil", kind |-> "none", v |-> 0]
LuauString == [type |-> "string", kind |-> "none", v |-> 0]

\* mutant: a negative amount passes the check
isInvalidNumber_AllowsNegative(amount) ==
    \/ amount.type # "number"
    \/ amount.kind = "nan"
    \/ amount.kind = "inf" /\ amount.v > 0

\* !typeIs(amount, "number") || tostring(amount) === "nan" || amount === math.huge
\* || amount < 0
isInvalidNumber(amount) ==
    \/ amount.type # "number"
    \/ amount.kind = "nan"
    \/ amount.kind = "inf" /\ amount.v > 0
    \/ amount.v < 0

\* mutant: the amount is taken off the stat
modifyStat_Subtracts(s, p, stat, amount) ==
    IF p \notin DOMAIN s.playerStats THEN s
    ELSE IF isInvalidNumber(amount) THEN Emit(s, "Warn", p, amount)
    ELSE Emit(Emit([s EXCEPT !.playerStats[p][stat] = @ - amount.v], "StatsUpdated", p, stat),
              "StatGained", p, stat)

modifyStat(s, p, stat, amount) ==
    IF p \notin DOMAIN s.playerStats THEN s
    ELSE IF isInvalidNumber(amount) THEN Emit(s, "Warn", p, amount)
    ELSE LET newValue == Min(s.playerStats[p][stat] + amount.v, MAX_STAT_VALUES[stat])
             s1 == [s EXCEPT !.playerStats[p][stat] = newValue]
             s2 == IF stat = "maxHealth"
                   THEN healPlayer(onMaxHealthChanged(s1, p, s1.playerStats[p].maxHealth),
                                   p, amount.v)
                   ELSE s1
         IN  Emit(Emit(s2, "StatsUpdated", p, stat), "StatGained", p, stat)

\* mutant: the stats are left as they are
resetPlayerStats_Keeps(s, p) == s

resetPlayerStats(s, p) ==
    IF p \notin DOMAIN s.playerStats THEN s
    ELSE [s EXCEPT !.playerStats[p] = BASE_STATS]

RECURSIVE ResetStatsEach(_, _)
ResetStatsEach(s, ps) ==
    IF ps = {} THEN s
    ELSE LET p == CHOOSE q \in ps : TRUE
         IN ResetStatsEach(resetPlayerStats(s, p), ps \ {p})

resetAllPlayerStats(s) == ResetStatsEach(s, DOMAIN s.playerStats)

(***************************************************************************)
(* LootService.                                                             *)
(***************************************************************************)
RECURSIVE SumWeights(_)
SumWeights(drops) ==
    IF drops = << >> THEN 0 ELSE Head(drops).weight + SumWeights(Tail(drops))

\* the loop of pickWeightedStat; roll100 is the running roll times 100
RECURSIVE PickLoop(_, _, _)
PickLoop(drops, k, roll100) ==
    IF k > Len(drops) THEN drops[1].stat
    ELSE IF roll100 - 100 * drops[k].weight <= 0 THEN drops[k].stat
    ELSE PickLoop(drops, k + 1, roll100 - 100 * drops[k].weight)

pickWeightedStat(drops, r) == PickLoop(drops, 1, r * SumWeights(drops))

pickWeightedRarity(weights, r) ==
    LET totalWeight == weights.Common + weights.Rare + weights.Epic
        roll100 == r * totalWeight
    IN  IF roll100 <= 100 * weights.Common THEN "Common"
        ELSE IF roll100 - 100 * weights.Common <= 100 * weights.Rare THEN "Rare"
        ELSE "Epic"

\* math.random() * (max - min) + min, times RARITY_MULTIPLIERS[rarity]
LootAmount(entry, rarity, r) ==
    (((r * (entry.max - entry.min)) \div 100 + entry.min) * RARITY_MULTIPLIERS[rarity]) \div 2

\* the loot id is a GUID: activeLoot is kept as the bag of the ActiveLoot values
spawnLoot(s, stat, amount, rarity) ==
    Emit([s EXCEPT !.activeLoot = @ (+) SetToBag({[stat |-> stat, amount |-> amount,
                                                    rarity |-> rarity]})],
         "LootSpawned", stat, amount)

RollOne(s, lootTable, pick) ==
    LET stat == pickWeightedStat(lootTable.drops, pick.stat)
        rarity == pickWeightedRarity(lootTable.rarityWeights, pick.rarity)
        found == {k \in 1 .. Len(lootTable.drops) : lootTable.drops[k].stat = stat}
    IN  IF found = {} THEN s
        ELSE LET entry == lootTable.drops[CHOOSE k \in found : \A j \in found : k <= j]
             IN  spawnLoot(s, stat, LootAmount(entry, rarity, pick.amount), rarity)

\* mutant: a drop roll that succeeds spawns two loot drops
rollAndSpawnLoot_Twice(s, enemyType, roll) ==
    IF enemyType \notin DOMAIN LOOT_TABLES THEN s
    ELSE IF roll.drop > LOOT_TABLES[enemyType].dropChance THEN s
    ELSE RollOne(RollOne(s, LOOT_TABLES[enemyType], roll.picks[1]),
                 LOOT_TABLES[enemyType], roll.picks[1])

rollAndSpawnLoot(s, enemyType, roll) ==
    IF enemyType \notin DOMAIN LOOT_TABLES THEN s
    ELSE IF roll.drop > LOOT_TABLES[enemyType].dropChance THEN s
    ELSE RollOne(s, LOOT_TABLES[enemyType], roll.picks[1])

RECURSIVE BossLootLoop(_, _, _, _)
BossLootLoop(s, i, dropCount, picks) ==
    IF i >= dropCount THEN s
    ELSE BossLootLoop(RollOne(s, LOOT_TABLES.Boss, picks[i + 1]), i + 1, dropCount, picks)

\* mutant: the boss drops one loot drop
spawnBossLoot_OneDrop(s, roll) == BossLootLoop(s, 0, 1, roll.picks)

spawnBossLoot(s, roll) == BossLootLoop(s, 0, roll.count, roll.picks)

despawnAllLoot(s) == [s EXCEPT !.activeLoot = EmptyBag]

collectLoot(s, loot, p) ==
    IF ~BagIn(loot, s.activeLoot) THEN s
    ELSE LET s1 == [s EXCEPT !.activeLoot = @ (-) SetToBag({loot})]
             s2 == modifyStat(s1, p, loot.stat, LuauNumber(loot.amount))
         IN  s2

despawnLoot(s, loot) ==
    IF ~BagIn(loot, s.activeLoot) THEN s
    ELSE [s EXCEPT !.activeLoot = @ (-) SetToBag({loot})]

(***************************************************************************)
(* EnemyService.                                                            *)
(***************************************************************************)
\* enemyModels.FindFirstChild(name) of spawnEnemy and spawnBoss
TemplateExists(s, name) == name \in s.templates

\* mutant: the ids restart after despawnAllEnemies
generateEnemyId_PerRound(s) == Cardinality(DOMAIN s.activeEnemies) + 1

\* the number n of the id `enemy_${n}`
generateEnemyId(s) == s.nextEnemyId + 1

spawnEnemy(s, enemyType, roomId) ==
    IF ~TemplateExists(s, enemyType) THEN s
    ELSE LET enemyId == generateEnemyId(s)
         IN  [s EXCEPT !.nextEnemyId = enemyId,
                       !.activeEnemies = @ @@ (enemyId :> [type |-> enemyType,
                                                           health |-> ENEMIES[enemyType].health,
                                                           damage |-> ENEMIES[enemyType].damage,
                                                           roomId |-> roomId,
                                                           isBoss |-> FALSE])]

RECURSIVE SpawnLoop(_, _, _)
SpawnLoop(s, spawnPoints, roomId) ==
    IF spawnPoints = << >> THEN s
    ELSE LET enemyType == Head(spawnPoints)
         IN  SpawnLoop(IF enemyType \in DOMAIN ENEMIES THEN spawnEnemy(s, enemyType, roomId)
                       ELSE s,
                       Tail(spawnPoints), roomId)

spawnEnemiesForRoom(s, roomId) == SpawnLoop(s, RoomSpawns(s.roomParts, roomId), roomId)

despawnAllEnemies(s) == [s EXCEPT !.activeEnemies = EmptyMap]

\* EnemyService.ts counts every instance of the map; the component-based service
\* skips the components that are not alive (health <= 0)
getAliveEnemyCount(s, roomId) ==
    Cardinality({e \in DOMAIN s.activeEnemies :
                    /\ s.activeEnemies[e].roomId = roomId
                    /\ (s.enemyImpl = "component" => s.activeEnemies[e].health > 0)})

spawnBoss(s) ==
    IF ~TemplateExists(s, BOSS_TEMPLATE_NAME) THEN s
    ELSE LET enemyId == generateEnemyId(s)
         IN  [s EXCEPT !.nextEnemyId = enemyId,
                       !.activeEnemies = @ @@ (enemyId :> [type |-> "Boss",
                                                           health |-> BOSS.health,
                                                           damage |-> BOSS.damage,
                                                           roomId |-> NoRoom,
                                                           isBoss |-> TRUE])]

(***************************************************************************)
(* GameStateService.                                                        *)
(***************************************************************************)
\* mutant: the number of Room parts is taken as it is
initializeRooms_NoClamp(s) ==
    LET roomCount == Len(s.roomParts)
        total == Max(roomCount, 1)
    IN  [s EXCEPT !.totalRooms = total,
                  !.rooms = [i \in 1 .. total |-> [roomId |-> i - 1, isCleared |-> FALSE]]]

initializeRooms(s) ==
    LET roomCount == Clamp(Len(s.roomParts), MIN_ROOMS, MAX_ROOMS)
        total == Max(roomCount, 1)
    IN  [s EXCEPT !.totalRooms = total,
                  !.rooms = [i \in 1 .. total |-> [roomId |-> i - 1, isCleared |-> FALSE]]]

GameSpawnEnemiesForRoom(s, roomIndex) ==
    IF roomIndex + 1 \notin DOMAIN s.rooms THEN s
    ELSE spawnEnemiesForRoom(s, s.rooms[roomIndex + 1].roomId)

unlockDoor(s, roomIndex) ==
    [s EXCEPT !.doorCanCollide = [d \in DOMAIN @ |-> IF d = roomIndex THEN FALSE ELSE @[d]]]

\* task.spawn runs the loop up to its first task.wait(1): CountdownTick(seconds) is out
\* mutant: the loop starts one below the given number of seconds
startCountdown_OneShort(s, seconds, onComplete) ==
    [Emit(s, "CountdownTick", seconds - 1, 0)
        EXCEPT !.countdownThread = [active |-> TRUE, i |-> seconds - 1, wait |-> SECOND,
                                    onComplete |-> onComplete]]

startCountdown(s, seconds, onComplete) ==
    [Emit(s, "CountdownTick", seconds, 0)
        EXCEPT !.countdownThread = [active |-> TRUE, i |-> seconds, wait |-> SECOND,
                                    onComplete |-> onComplete]]

\* mutant: the ready set is not cleared
enterLobby_KeepsReady(s) ==
    LET s1 == [s EXCEPT !.currentRoomIndex = 0, !.rooms = << >>]
        s2 == setPvPEnabled(s1, FALSE)
        s3 == resetAllPlayers(s2)
        s4 == resetAllPlayerStats(s3)
        s5 == despawnAllLoot(s4)
        s6 == despawnAllEnemies(s5)
    IN  initializeRooms(s6)

enterLobby(s) ==
    LET s1 == [s EXCEPT !.readyPlayers = {}, !.currentRoomIndex = 0, !.rooms = << >>]
        s2 == setPvPEnabled(s1, FALSE)
        s3 == resetAllPlayers(s2)
        s4 == resetAllPlayerStats(s3)
        s5 == despawnAllLoot(s4)
        s6 == despawnAllEnemies(s5)
    IN  initializeRooms(s6)

enterCountdown(s) == startCountdown(s, LOBBY_COUNTDOWN, "Dungeon")

enterDungeon(s) ==
    LET s1 == resetAllPlayers(s)
        s2 == [s1 EXCEPT !.currentRoomIndex = 0]
    IN  GameSpawnEnemiesForRoom(s2, 0)

enterBoss(s) == spawnBoss(s)

enterPvPCountdown(s) == startCountdown(s, PVP_COUNTDOWN, "PvP")

enterPvP(s) ==
    setPvPEnabled(s, TRUE)

enterVictory(s) == startCountdown(setPvPEnabled(s, FALSE), VICTORY_DURATION, "Lobby")

transitionTo(s, newPhase, winnerId) ==
    LET s1 == [s EXCEPT !.phase = newPhase, !.countdownThread = NoThread]
        s2 == CASE newPhase = "Lobby" -> enterLobby(s1)
                [] newPhase = "Countdown" -> enterCountdown(s1)
                [] newPhase = "Dungeon" -> enterDungeon(s1)
                [] newPhase = "Boss" -> enterBoss(s1)
                [] newPhase = "PvPCountdown" -> enterPvPCountdown(s1)
                [] newPhase = "PvP" -> enterPvP(s1)
                [] newPhase = "Victory" -> enterVictory(s1)
    IN  Emit(s2, "PhaseChanged", newPhase,
             IF newPhase = "Victory" THEN winnerId ELSE NoWinner)

checkAllPlayersDead(s) ==
    LET alivePlayers == getAlivePlayers(s)
        s1 == s
    IN  IF Cardinality(alivePlayers) = 0 /\ Cardinality(s.players) > 0
        THEN transitionTo(s1, "Lobby", NoWinner)
        ELSE s1

\* alivePlayers[0] is the first alive player in Players.GetPlayers() order
checkPvPVictory(s) ==
    LET alivePlayers == getAlivePlayers(s)
        s1 == s
    IN  IF Cardinality(alivePlayers) <= 1
        THEN transitionTo(s1, "Victory",
                          IF alivePlayers = {} THEN NoWinner
                          ELSE CHOOSE w \in alivePlayers : \A q \in alivePlayers : w <= q)
        ELSE s1

\* mutant: the lobby starts the dungeon without the countdown
checkStartConditions_SkipsCountdown(s) ==
    IF s.phase = "Lobby"
    THEN IF Cardinality(s.readyPlayers) >= MIN_PLAYERS_TO_START
         THEN transitionTo(s, "Dungeon", NoWinner) ELSE s
    ELSE IF s.phase = "Countdown"
    THEN IF Cardinality(s.readyPlayers) < MIN_PLAYERS_TO_START
         THEN transitionTo(s, "Lobby", NoWinner) ELSE s
    ELSE s

checkStartConditions(s) ==
    IF s.phase = "Lobby"
    THEN IF Cardinality(s.readyPlayers) >= MIN_PLAYERS_TO_START
         THEN transitionTo(s, "Countdown", NoWinner) ELSE s
    ELSE IF s.phase = "Countdown"
    THEN IF Cardinality(s.readyPlayers) < MIN_PLAYERS_TO_START
         THEN transitionTo(s, "Lobby", NoWinner) ELSE s
    ELSE s

handleEnemyKilled(s) ==
    IF s.currentRoomIndex + 1 \notin DOMAIN s.rooms THEN s
    ELSE LET room == s.rooms[s.currentRoomIndex + 1]
         IN  IF room.isCleared THEN s
             ELSE IF getAliveEnemyCount(s, room.roomId) # 0 THEN s
             ELSE LET s1 == [s EXCEPT !.rooms[s.currentRoomIndex + 1].isCleared = TRUE]
                      s2 == Emit(s1, "RoomCleared", s.currentRoomIndex, 0)
                      s3 == unlockDoor(s2, s.currentRoomIndex)
                  IN  IF s.currentRoomIndex >= s.totalRooms - 1
                      THEN [s3 EXCEPT !.bossTimers = @ \cup {BOSS_DELAY}]
                      ELSE s3

handleEntityDeath(s, entityType) ==
    IF s.phase = "Dungeon"
    THEN IF entityType # "Player" THEN handleEnemyKilled(s) ELSE checkAllPlayersDead(s)
    ELSE IF s.phase = "Boss"
    THEN IF entityType = "Boss" THEN transitionTo(s, "PvPCountdown", NoWinner)
         ELSE IF entityType = "Player" THEN checkAllPlayersDead(s)
         ELSE s
    ELSE IF s.phase = "PvP"
    THEN IF entityType = "Player" THEN checkPvPVictory(s) ELSE s
    ELSE s

onBossDefeated(s) ==
    IF s.phase = "Boss" THEN transitionTo(s, "PvPCountdown", NoWinner) ELSE s

\* mutant: the current room need not be cleared
advanceToNextRoom_Uncleared(s) ==
    IF s.phase # "Dungeon" THEN s
    ELSE IF s.isAdvancingRoom THEN s
    ELSE IF s.currentRoomIndex + 1 \notin DOMAIN s.rooms THEN s
    ELSE LET nextIndex == s.currentRoomIndex + 1
         IN  IF nextIndex < s.totalRooms
             THEN LET s1 == [s EXCEPT !.isAdvancingRoom = TRUE, !.currentRoomIndex = nextIndex]
                      s2 == GameSpawnEnemiesForRoom(s1, nextIndex)
                      s3 == Emit(s2, "PhaseChanged", s2.phase, NoWinner)
                  IN  [s3 EXCEPT !.guardTimers = @ \cup {ROOM_GUARD_DELAY}]
             ELSE s

advanceToNextRoom(s) ==
    IF s.phase # "Dungeon" THEN s
    ELSE IF s.isAdvancingRoom THEN s
    ELSE IF s.currentRoomIndex + 1 \notin DOMAIN s.rooms THEN s
    ELSE IF ~s.rooms[s.currentRoomIndex + 1].isCleared THEN s
    ELSE LET nextIndex == s.currentRoomIndex + 1
         IN  IF nextIndex < s.totalRooms
             THEN LET s1 == [s EXCEPT !.isAdvancingRoom = TRUE, !.currentRoomIndex = nextIndex]
                      s2 == GameSpawnEnemiesForRoom(s1, nextIndex)
                      s3 == Emit(s2, "PhaseChanged", s2.phase, NoWinner)
                  IN  [s3 EXCEPT !.guardTimers = @ \cup {ROOM_GUARD_DELAY}]
             ELSE s

\* lastReadyToggle.get(player) ?? 0: no entry reads as the epoch, an age past the
\* limit, so the map is kept total with the saturated age for the players without entry
ToggleAge(s, p) == s.lastReadyToggle[p]

SetToggle(s, p) ==
    [s EXCEPT !.lastReadyToggle[p] = 0]

handlePlayerReady(s, p) ==
    IF s.phase # "Lobby" THEN s
    ELSE IF ToggleAge(s, p) < READY_TOGGLE_LIMIT THEN s
    ELSE LET s1 == SetToggle(s, p)
             s2 == [s1 EXCEPT !.readyPlayers = @ \cup {p}]
         IN  checkStartConditions(s2)

handlePlayerUnready(s, p) ==
    IF s.phase # "Lobby" /\ s.phase # "Countdown" THEN s
    ELSE IF ToggleAge(s, p) < READY_TOGGLE_LIMIT THEN s
    ELSE LET s1 == SetToggle(s, p)
             s2 == [s1 EXCEPT !.readyPlayers = @ \ {p}]
         IN  IF s2.phase = "Countdown" /\ Cardinality(s2.readyPlayers) < MIN_PLAYERS_TO_START
             THEN transitionTo(s2, "Lobby", NoWinner)
             ELSE s2

\* the two task.delay callbacks only send PhaseChanged to, and teleport, the joiner
handlePlayerJoined(s, p) == s

\* mutant: the leaver stays in the ready set
handlePlayerLeft_KeepsReady(s, p) ==
    LET s1 == [s EXCEPT !.lastReadyToggle[p] = READY_TOGGLE_LIMIT]
    IN  IF s1.phase = "Countdown" \/ s1.phase = "Lobby" THEN checkStartConditions(s1)
        ELSE IF s1.phase = "PvP" THEN checkPvPVictory(s1)
        ELSE IF s1.phase = "Dungeon" \/ s1.phase = "Boss" THEN checkAllPlayersDead(s1)
        ELSE s1

handlePlayerLeft(s, p) ==
    LET s1 == [s EXCEPT !.readyPlayers = @ \ {p},
                        !.lastReadyToggle[p] = READY_TOGGLE_LIMIT]
    IN  IF s1.phase = "Countdown" \/ s1.phase = "Lobby" THEN checkStartConditions(s1)
        ELSE IF s1.phase = "PvP" THEN checkPvPVictory(s1)
        ELSE IF s1.phase = "Dungeon" \/ s1.phase = "Boss" THEN checkAllPlayersDead(s1)
        ELSE s1

(***************************************************************************)
(* combatService.onEntityDied.Fire: the handler LootService connected, then *)
(* the handler GameStateService connected (they touch disjoint state on     *)
(* enemy deaths and the LootService handler does nothing on player deaths). *)
(***************************************************************************)
NoRoll == [drop |-> 0, count |-> 0, picks |-> << >>]

LootOnEntityDied(s, entityType, roll) ==
    IF entityType = "Boss" THEN spawnBossLoot(s, roll)
    ELSE rollAndSpawnLoot(s, entityType, roll)

FireEntityDied(s, entityType, roll) ==
    handleEntityDeath(LootOnEntityDied(s, entityType, roll), entityType)

\* shared/network.ts
createPlayerEntityId(userId) == "player_" \o ToString(userId)

createEnemyEntityId(enemyId) == "enemy_" \o enemyId

\* the string generateEnemyId returns for the number n: instance.id and the EnemyId
\* attribute of the model
EnemyIdString(n) == "enemy_" \o ToString(n)

\* EnemyService.getEntityId(instance.id) / EnemyComponent.getEntityId()
EnemyGetEntityId(n) == createEnemyEntityId(EnemyIdString(n))

\* CombatService.getEntityId(player)
CombatGetEntityId(p) == createPlayerEntityId(p)

\* Events.EntityDied.broadcast(entityId, ...): a is the enemy or the player that died
\* and b its entity type, as the signal fired next to the broadcast carries them
EmitEntityDied(s, entityId, a, b) ==
    [s EXCEPT !.events = Append(@, [type |-> "EntityDied", a |-> a, b |-> b,
                                    entityId |-> entityId])]

\* EnemyService.handleEnemyDeath / EnemyComponent.handleDeath: the signal is
\* fired while the enemy is still registered, the enemy goes afterwards
handleEnemyDeath(s, enemyId, roll) ==
    LET entityType == IF s.activeEnemies[enemyId].isBoss THEN "Boss"
                      ELSE s.activeEnemies[enemyId].type
        s1 == EmitEntityDied(s, EnemyGetEntityId(enemyId), enemyId, entityType)
        s2 == FireEntityDied(s1, entityType, roll)
    IN  [s2 EXCEPT !.activeEnemies = [e \in DOMAIN @ \ {enemyId} |-> @[e]]]

dealDamageToEnemy(s, enemyId, amount, roll) ==
    IF enemyId \notin DOMAIN s.activeEnemies THEN s
    ELSE LET s1 == [s EXCEPT !.activeEnemies[enemyId].health = Max(0, @ - amount)]
         IN  IF s1.activeEnemies[enemyId].health <= 0
             THEN handleEnemyDeath(s1, enemyId, roll)
             ELSE s1

dealDamageToPlayer(s, p, amount) ==
    IF p \notin DOMAIN s.playerStates THEN s
    ELSE IF ~s.playerStates[p].isAlive \/ s.playerStates[p].invulnerable THEN s
    ELSE LET s1 == [s EXCEPT !.playerStates[p].health = Max(0, @ - amount)]
         IN  IF s1.playerStates[p].health <= 0
             THEN LET s2 == [s1 EXCEPT !.playerStates[p].isAlive = FALSE]
                  IN  FireEntityDied(EmitEntityDied(s2, CombatGetEntityId(p), p, "Player"),
                                     "Player", NoRoll)
             ELSE s1

\* the loop over CollectionService.GetTagged("Enemy"), in ascending id order
RECURSIVE HitEnemiesLoop(_, _, _, _)
HitEnemiesLoop(s, enemies, damage, rolls) ==
    IF enemies = {} THEN s
    ELSE LET e == CHOOSE x \in enemies : \A y \in enemies : x <= y
         IN  HitEnemiesLoop(dealDamageToEnemy(s, e, damage, rolls[e]),
                            enemies \ {e}, damage, rolls)

\* the loop over Players.GetPlayers(), in ascending UserId order
RECURSIVE HitPlayersLoop(_, _, _, _)
HitPlayersLoop(s, others, inArc, damage) ==
    IF others = {} THEN s
    ELSE LET q == CHOOSE x \in others : \A y \in others : x <= y
         IN  HitPlayersLoop(IF isPlayerAlive(s, q) /\ q \in inArc
                            THEN dealDamageToPlayer(s, q, damage) ELSE s,
                            others \ {q}, inArc, damage)

performMeleeAttack(s, p, damage, enemiesInArc, playersInArc, rolls) ==
    LET s1 == HitEnemiesLoop(s, enemiesInArc, damage, rolls)
    IN  IF s1.pvpEnabled
        THEN HitPlayersLoop(s1, s1.players \ {p}, playersInArc, damage)
        ELSE s1

\* now - lastAttackTime < cooldown / attackSpeed, with the age in ticks of 0.5 s
\* and attackSpeed in hundredths
handleAttackRequest(s, p, enemiesInArc, playersInArc, rolls) ==
    IF ~isPlayerAlive(s, p) THEN s
    ELSE IF s.playerStates[p].lastAttackTime * getAttackSpeed(s, p) < ATTACK_COOLDOWN * 100
    THEN s
    ELSE LET s1 == [s EXCEPT !.playerStates[p].lastAttackTime = 0]
         IN  performMeleeAttack(s1, p, getPlayerDamage(s1, p), enemiesInArc, playersInArc,
                                rolls)

(***************************************************************************)
(* Inputs of the handlers.                                                  *)
(***************************************************************************)
Picks == [stat : StatRolls, rarity : RarityRolls, amount : AmountRolls]

EnemyRolls == {[drop |-> d, count |-> 0, picks |-> << pk >>] : d \in DropRolls, pk \in Picks}

BossRolls ==
    {[drop |-> 0, count |-> c, picks |-> ps] :
        c \in BOSS_DROP_COUNT.min .. BOSS_DROP_COUNT.max,
        ps \in [1 .. BOSS_DROP_COUNT.max -> Picks]}

\* the random numbers a hit on enemy e draws: none unless the hit kills
RollsFor(s, e, damage) ==
    IF s.activeEnemies[e].health - damage > 0 THEN {NoRoll}
    ELSE IF s.activeEnemies[e].isBoss THEN BossRolls
    ELSE EnemyRolls

RECURSIVE RollMaps(_, _, _)
RollMaps(s, enemies, damage) ==
    IF enemies = {} THEN {EmptyMap}
    ELSE LET e == CHOOSE x \in enemies : TRUE
         IN  {m @@ (e :> r) : m \in RollMaps(s, enemies \ {e}, damage),
                              r \in RollsFor(s, e, damage)}

\* the orders in which the three PlayerRemoving connections may run
RemovingOrders ==
    {o \in [1 .. 3 -> {"combat", "stats", "game"}] : \A i, j \in 1 .. 3 : i # j => o[i] # o[j]}

Wounded(s) ==
    {p \in DOMAIN s.playerStates :
        s.playerStates[p].isAlive /\ s.playerStates[p].health < getMaxHealth(s, p)}

Bounded(s) ==
    /\ s.nextEnemyId <= MaxEnemyId
    /\ BagCardinality(s.activeLoot) <= MaxLoot
    /\ Cardinality(Wounded(s)) <= MaxWounded
    /\ Cardinality(s.touchedPlayers) <= MaxTouching
    /\ Cardinality({p \in DOMAIN s.playerStats : s.playerStats[p] # BASE_STATS}) <= MaxBoosted

(***************************************************************************)
(* The state after the services' onStart: an empty server in the lobby.     *)
(***************************************************************************)
InitServices ==
    /\ phase = "Lobby"
    /\ readyPlayers = {}
    /\ currentRoomIndex = 0
    /\ totalRooms = Max(Clamp(Len(roomParts), MIN_ROOMS, MAX_ROOMS), 1)
    /\ rooms = [i \in 1 .. totalRooms |-> [roomId |-> i - 1, isCleared |-> FALSE]]
    /\ countdownThread = NoThread
    /\ isAdvancingRoom = FALSE
    /\ lastReadyToggle = [p \in AllPlayers |-> READY_TOGGLE_LIMIT]
    /\ guardTimers = {}
    /\ bossTimers = {}
    /\ players = {}
    /\ playerStates = EmptyMap
    /\ pvpEnabled = FALSE
    /\ playerStats = EmptyMap
    /\ activeEnemies = EmptyMap
    /\ nextEnemyId = 0
    /\ activeLoot = EmptyBag
    /\ doorCanCollide = [d \in DoorIndexes |-> TRUE]
    /\ touchedPlayers = {}
    /\ enemyImpl \in {"service", "component"}
    /\ sinceAttack = [p \in AllPlayers |-> ATTACK_COOLDOWN]
    /\ events = << >>

Init == roomParts = DefaultRoomParts /\ InitServices /\ templates = AllTemplates

Step(s) == Bounded(s) /\ Apply(s)

\* a fight that has drawn blood is fought out: while a player is alive below full
\* health only the attacks on that player, the timers and the clock go on
Fray == Wounded(State) # {}

(***************************************************************************)
(* Actions: one per engine callback.                                        *)
(***************************************************************************)
\* Players.PlayerAdded: CombatService, StatsService and GameStateService connections
PlayerAdded(p) ==
    /\ p \notin players
    /\ ~Fray
    /\ Step(handlePlayerJoined(
                StatsInitializePlayer(
                    CombatInitializePlayer([State EXCEPT !.players = @ \cup {p}], p), p), p))

RECURSIVE RunRemoving(_, _, _)
RunRemoving(s, p, order) ==
    IF order = << >> THEN s
    ELSE LET h == Head(order)
             s1 == IF h = "combat" THEN CombatCleanupPlayer(s, p)
                   ELSE IF h = "stats" THEN StatsCleanupPlayer(s, p)
                   ELSE handlePlayerLeft(s, p)
         IN  RunRemoving(s1, p, Tail(order))

\* Players.PlayerRemoving: the player is still in GetPlayers() while the handlers run.
\* The sets are keyed by the Player object, which is gone for good (a rejoin is a new
\* object): an entry RoomTriggerComponent keeps of it can never match again.
PlayerRemoving(p, order) ==
    /\ p \in players
    /\ ~Fray
    /\ Step([RunRemoving(State, p, order) EXCEPT !.players = @ \ {p},
                                                  !.touchedPlayers = @ \ {p},
                                                  !.sinceAttack[p] = ATTACK_COOLDOWN])

PlayerReady(p) ==
    /\ p \in players
    /\ ~Fray
    /\ Step(handlePlayerReady(State, p))

PlayerUnready(p) ==
    /\ p \in players
    /\ ~Fray
    /\ Step(handlePlayerUnready(State, p))

\* the handler that led from s0 to s accepted the request of p: it stamped
\* lastAttackTime (and went on to AttackEffect and performMeleeAttack)
Accepted(s0, s, p) ==
    /\ p \in DOMAIN s0.playerStates /\ p \in DOMAIN s.playerStates
    /\ s0.playerStates[p].lastAttackTime > 0
    /\ s.playerStates[p].lastAttackTime = 0

\* Events.RequestAttack; a player swings when something stands in the arc
RequestAttack(p, enemiesInArc, playersInArc, rolls) ==
    /\ p \in players
    /\ enemiesInArc # {} \/ playersInArc # {}
    /\ Fray => enemiesInArc = {} /\ playersInArc \subseteq Wounded(State)
    /\ LET s1 == handleAttackRequest(State, p, enemiesInArc, playersInArc, rolls)
       IN  Step(IF Accepted(State, s1, p) THEN [s1 EXCEPT !.sinceAttack[p] = 0] ELSE s1)

\* EnemyService.handleAttackState at the end of the windup, target still in range
EnemyAttack(e, p) ==
    /\ e \in DOMAIN activeEnemies
    /\ p \in players
    /\ isPlayerAlive(State, p)
    /\ Fray => p \in Wounded(State)
    /\ Cardinality(players) <= MaxEngaged
    /\ Step(dealDamageToPlayer(State, p, activeEnemies[e].damage))

\* LootService.handleLootTouch
LootTouched(loot, p) ==
    /\ BagIn(loot, activeLoot)
    /\ ~Fray
    /\ p \in players
    /\ Step(collectLoot(State, loot, p))

\* the task.delay(LOOT_DESPAWN_TIME) thread of spawnLoot
LootDespawn(loot) ==
    /\ BagIn(loot, activeLoot)
    /\ ~Fray
    /\ Step(despawnLoot(State, loot))

\* RoomTriggerComponent.handleTouch
RoomTriggerTouched(p) ==
    /\ p \in players
    /\ ~Fray
    /\ phase \in TriggerPhases
    /\ \E d \in DoorIndexes : ~doorCanCollide[d]
    /\ Step(IF p \in touchedPlayers THEN State
            ELSE advanceToNextRoom([State EXCEPT !.touchedPlayers = @ \cup {p}]))

\* RoomTriggerComponent.handleTouchEnded
RoomTriggerTouchEnded(p) ==
    /\ p \in touchedPlayers
    /\ Step([State EXCEPT !.touchedPlayers = @ \ {p}])

\* the countdown thread resumes from task.wait(1)
CountdownResume ==
    /\ countdownThread.active
    /\ countdownThread.wait = 0
    /\ LET i == countdownThread.i - 1
           s1 == Emit(State, "CountdownTick", i, 0)
       IN  Step(IF i > 0
                THEN [s1 EXCEPT !.countdownThread.i = i, !.countdownThread.wait = SECOND]
                ELSE transitionTo(s1, countdownThread.onComplete, NoWinner))

\* the task.delay(0.5) callback of advanceToNextRoom
RoomGuardRelease ==
    /\ 0 \in guardTimers
    /\ Step([State EXCEPT !.isAdvancingRoom = FALSE, !.guardTimers = @ \ {0}])

\* the task.delay(2) callback of handleEnemyKilled
BossDelayElapsed ==
    /\ 0 \in bossTimers
    /\ LET s1 == [State EXCEPT !.bossTimers = @ \ {0}]
       IN  Step(IF s1.phase = "Dungeon" THEN transitionTo(s1, "Boss", NoWinner) ELSE s1)

\* the remaining ticks of the pending timers
Due ==
    (IF countdownThread.active THEN {countdownThread.wait} ELSE {}) \cup guardTimers
        \cup bossTimers

\* the clock moves on to the next due timer, by half a second when none is pending;
\* no resumable thread is left waiting, and a character crossing the room trigger
\* has left it again
Tick ==
    /\ touchedPlayers = {}
    /\ 0 \notin Due
    /\ LET d == IF Due = {} THEN 1 ELSE CHOOSE x \in Due : \A y \in Due : x <= y
       IN  Step([State EXCEPT
                !.countdownThread = IF @.active THEN [@ EXCEPT !.wait = @ - d] ELSE @,
                !.guardTimers = {x - d : x \in @},
                !.bossTimers = {x - d : x \in @},
                !.lastReadyToggle = [q \in DOMAIN @ |-> Min(@[q] + d, READY_TOGGLE_LIMIT)],
                !.sinceAttack = [q \in DOMAIN @ |-> Min(@[q] + d, ATTACK_COOLDOWN)],
                !.playerStates = [q \in DOMAIN @ |->
                                    [@[q] EXCEPT !.lastAttackTime = Min(@ + d, ATTACK_COOLDOWN)]]])

LootKinds == BagToSet(activeLoot)

Next ==
    \/ \E p \in AllPlayers : PlayerAdded(p)
    \/ \E p \in AllPlayers, order \in RemovingOrders : PlayerRemoving(p, order)
    \/ \E p \in AllPlayers : PlayerReady(p)
    \/ \E p \in AllPlayers : PlayerUnready(p)
    \/ \E p \in AllPlayers, enemiesInArc \in SUBSET DOMAIN activeEnemies :
            \E playersInArc \in SUBSET (getAlivePlayers(State) \ {p}),
               rolls \in RollMaps(State, enemiesInArc, getPlayerDamage(State, p)) :
                RequestAttack(p, enemiesInArc, playersInArc, rolls)
    \/ \E e \in DOMAIN activeEnemies, p \in AllPlayers : EnemyAttack(e, p)
    \/ \E loot \in LootKinds, p \in AllPlayers : LootTouched(loot, p)
    \/ \E loot \in LootKinds : LootDespawn(loot)
    \/ \E p \in AllPlayers : RoomTriggerTouched(p)
    \/ \E p \in AllPlayers : RoomTriggerTouchEnded(p)
    \/ CountdownResume
    \/ RoomGuardRelease
    \/ BossDelayElapsed
    \/ Tick

Spec == Init /\ [][Next]_vars

\* the finite amount a direct call of modifyStat adds or, negated, asks to take off
StatStep == 5

\* StatsService.modifyStat is public: a caller may hand it any Luau value as amount
Amounts ==
    {LuauNumber(n) : n \in {-StatStep, 0, StatStep}}
        \cup {LuauNaN, LuauHuge, LuauMinusHuge, LuauNil, LuauString}

ModifyStatCall(p, stat, amount) ==
    LET s1 == modifyStat(State, p, stat, amount)
    IN  /\ \A q \in DOMAIN s1.playerStats : \A st \in StatNames :
              s1.playerStats[q][st] <= BASE_STATS[st] + MaxStatGain
        /\ Step(s1)

NextStatsApi ==
    \/ \E p \in AllPlayers : PlayerAdded(p)
    \/ \E p \in AllPlayers, stat \in StatNames, amount \in Amounts :
          ModifyStatCall(p, stat, amount)

\* the players join and modifyStat is called with every kind of amount
SpecStatsApi == Init /\ [][NextStatsApi]_vars

\* the same server in a place file that may lack the Goblin template
InitAnyTemplates ==
    roomParts = DefaultRoomParts /\ InitServices /\ templates \in {AllTemplates, AllTemplates \ {"Goblin"}}

SpecAnyTemplates == InitAnyTemplates /\ [][Next]_vars

(***************************************************************************)
(* Properties.                                                              *)
(***************************************************************************)
PhasePredecessor ==
    [Countdown |-> "Lobby", Dungeon |-> "Countdown", Boss |-> "Dungeon",
     PvPCountdown |-> "Boss", PvP |-> "PvPCountdown", Victory |-> "PvP"]

\* the phase changes a handler broadcast, walked in order from the phase it started in
RECURSIVE LegalChain(_, _)
LegalChain(from, evs) ==
    IF evs = << >> THEN TRUE
    ELSE LET e == Head(evs)
         IN  IF e.type # "PhaseChanged" \/ e.a = from THEN LegalChain(from, Tail(evs))
             ELSE /\ e.a = "Lobby" \/ PhasePredecessor[e.a] = from
                  /\ LegalChain(e.a, Tail(evs))

HasEvent(evs, type, a) == \E k \in 1 .. Len(evs) : evs[k].type = type /\ evs[k].a = a

CountEvents(evs, type, a) ==
    Cardinality({k \in 1 .. Len(evs) : evs[k].type = type /\ evs[k].a = a})

\* C1: every change of the phase into a phase other than Lobby comes from that phase's
\* immediate predecessor in Lobby -> Countdown -> Dungeon -> Boss -> PvPCountdown ->
\* PvP -> Victory, for the phase at the end of each handler and for every phase
\* change the handler went through on the way
C1_PhaseOrder ==
    [][/\ LegalChain(phase, events')
       /\ (phase' # phase /\ phase' # "Lobby") => PhasePredecessor[phase'] = phase]_vars

\* a Victory that has just been entered: the whole cycle has been walked
C1_Witness == phase = "Victory" /\ HasEvent(events, "PhaseChanged", "Victory")

\* an enemy (not a player) with this id died in the handler that broadcast evs
EnemyDied(evs, e) ==
    \E k \in 1 .. Len(evs) : evs[k].type = "EntityDied" /\ evs[k].a = e /\ evs[k].b # "Player"

\* C2: in the Dungeon phase, the kill of the last remaining enemy of the current room
\* clears the room in that handler: RoomCleared(currentRoomIndex) is broadcast exactly
\* once, for a room not cleared before, and the door of that index is unlocked
C2_RoomClearedOnLastKill ==
    [][\A e \in DOMAIN activeEnemies :
          (/\ phase = "Dungeon"
           /\ activeEnemies[e].roomId = currentRoomIndex
           /\ EnemyDied(events', e)
           /\ \A f \in DOMAIN activeEnemies' : activeEnemies'[f].roomId # currentRoomIndex)
          => /\ ~rooms[currentRoomIndex + 1].isCleared
             /\ rooms'[currentRoomIndex + 1].isCleared
             /\ CountEvents(events', "RoomCleared", currentRoomIndex) = 1
             /\ ~doorCanCollide'[currentRoomIndex]]_vars

\* C3: the game is never in PvP with one or zero alive players
C3_PvPNeedsTwoAlive == phase = "PvP" => Cardinality(getAlivePlayers(State)) >= 2

\* C4: CombatService.pvpEnabled is true exactly when the phase is PvP
C4_PvPEnabledIffPvP == pvpEnabled <=> phase = "PvP"

\* a player alive below full health in the PvP phase, PvP damage being on
C4_Witness == phase = "PvP" /\ pvpEnabled /\ Wounded(State) # {}

\* C5: a handler that transitions into Lobby leaves the ready set empty,
\* currentRoomIndex 0, every room uncleared, PvP disabled, no enemy, no loot, and
\* every tracked player alive with BASE_STATS
C5_LobbyResets ==
    [][(HasEvent(events', "PhaseChanged", "Lobby") \/ (phase' = "Lobby" /\ phase # "Lobby"))
        => /\ phase' = "Lobby"
           /\ readyPlayers' = {}
           /\ currentRoomIndex' = 0
           /\ \A i \in DOMAIN rooms' : ~rooms'[i].isCleared
           /\ ~pvpEnabled'
           /\ activeEnemies' = EmptyMap
           /\ activeLoot' = EmptyBag
           /\ \A p \in DOMAIN playerStates' : playerStates'[p].isAlive
           /\ \A p \in DOMAIN playerStats' : playerStats'[p] = BASE_STATS]_vars

\* the lobby just entered after a round in which a player had raised maxHealth (the
\* health the reset gave is the raised maximum) 
C5_Witness ==
    /\ phase = "Lobby"
    /\ HasEvent(events, "PhaseChanged", "Lobby")
    /\ \E p \in DOMAIN playerStates : playerStates[p].health > BASE_STATS.maxHealth

\* C6: at every entry into the Dungeon phase every tracked player's stats equal
\* BASE_STATS
C6_DungeonEntryBaseStats ==
    [][(phase' = "Dungeon" /\ phase # "Dungeon")
        => \A p \in DOMAIN playerStats' : playerStats'[p] = BASE_STATS]_vars

\* the dungeon just entered by the countdown, in a round after one in which room 0
\* was cleared (its door is still open)
C6_Witness ==
    /\ phase = "Dungeon"
    /\ HasEvent(events, "CountdownTick", 0)
    /\ ~doorCanCollide[0]
    /\ playerStats # EmptyMap

\* C7: every stat of every player is at least its BASE_STATS value, and no handler
\* other than one that resets (a transition into Lobby) lowers a stat of a player
\* it keeps
C7_StatsAdditive ==
    /\ [](\A p \in DOMAIN playerStats : \A st \in StatNames :
                playerStats[p][st] >= BASE_STATS[st])
    /\ [][~HasEvent(events', "PhaseChanged", "Lobby")
            => \A p \in DOMAIN playerStats \cap DOMAIN playerStats' : \A st \in StatNames :
                    playerStats'[p][st] >= playerStats[p][st]]_vars

\* a player has just collected loot and holds a stat above its base value
C7_Witness ==
    \E p \in DOMAIN playerStats :
        /\ playerStats[p] # BASE_STATS
        /\ \E st \in StatNames : HasEvent(events, "StatGained", p) 

TouchStep == touchedPlayers \subseteq touchedPlayers' /\ touchedPlayers' # touchedPlayers

\* the state in which advanceToNextRoom advances
CanAdvance ==
    /\ phase = "Dungeon"
    /\ ~isAdvancingRoom
    /\ currentRoomIndex + 1 \in DOMAIN rooms
    /\ rooms[currentRoomIndex + 1].isCleared
    /\ currentRoomIndex + 1 < totalRooms

\* C9: currentRoomIndex changes, other than back to 0 on a phase change, only by a
\* trigger touch in the Dungeon phase with the current room cleared, by exactly +1,
\* with the next room's spawn points spawned once each and with no other advance in
\* the last half second; a touch in any other state changes nothing of the round
C9_AdvanceGuarded ==
    [][/\ currentRoomIndex' # currentRoomIndex
            => \/ currentRoomIndex' = 0 /\ phase' # phase
               \/ /\ TouchStep
                  /\ phase = "Dungeon" /\ phase' = "Dungeon"
                  /\ rooms[currentRoomIndex + 1].isCleared
                  /\ currentRoomIndex' = currentRoomIndex + 1
                  /\ ~isAdvancingRoom /\ isAdvancingRoom'
                  /\ guardTimers = {}
                  /\ nextEnemyId' = nextEnemyId + Len(RoomSpawns(roomParts, currentRoomIndex'))
                  /\ DOMAIN activeEnemies' =
                        DOMAIN activeEnemies \cup ((nextEnemyId + 1) .. nextEnemyId')
                  /\ \A e \in (nextEnemyId + 1) .. nextEnemyId' :
                        activeEnemies'[e].roomId = currentRoomIndex'
       /\ (TouchStep /\ ~CanAdvance)
            => UNCHANGED << phase, readyPlayers, currentRoomIndex, totalRooms, rooms,
                            countdownThread, isAdvancingRoom, guardTimers, bossTimers,
                            players, playerStates, pvpEnabled, playerStats, activeEnemies,
                            nextEnemyId, activeLoot, doorCanCollide >>]_vars

\* a second player stands in the trigger of room 1 within the half second of the
\* advance into it
C9_Witness ==
    /\ phase = "Dungeon"
    /\ currentRoomIndex = 1
    /\ isAdvancingRoom
    /\ guardTimers = {ROOM_GUARD_DELAY}
    /\ Cardinality(players) = 2
    /\ touchedPlayers # {}
    /\ events = << >>

\* C10: a door with RoomIndex k is blocking unless room k is cleared in the current
\* round
C10_DoorsBlockUnlessCleared ==
    \A k \in DoorIndexes :
        ~doorCanCollide[k] => (k + 1 \in DOMAIN rooms /\ rooms[k + 1].isCleared)

\* C11: in the Countdown phase at least MIN_PLAYERS_TO_START players are ready and
\* every ready player is in the game, and the Dungeon phase is entered with at least
\* MIN_PLAYERS_TO_START ready players
C11_CountdownHasReadyPlayers ==
    /\ [](phase = "Countdown"
            => /\ Cardinality(readyPlayers) >= MIN_PLAYERS_TO_START
               /\ readyPlayers \subseteq players)
    /\ [][(phase' = "Dungeon" /\ phase # "Dungeon")
            => /\ Cardinality(readyPlayers') >= MIN_PLAYERS_TO_START
               /\ readyPlayers' \subseteq players']_vars

\* the dungeon just entered by the countdown with a ready player and one who is not
C11_Witness ==
    /\ phase = "Dungeon"
    /\ HasEvent(events, "CountdownTick", 0)
    /\ readyPlayers # {}
    /\ readyPlayers # players

\* the phases that run a countdown: its length and the phase its completion enters
CountdownSeconds ==
    [Countdown |-> LOBBY_COUNTDOWN, PvPCountdown |-> PVP_COUNTDOWN, Victory |-> VICTORY_DURATION]
CountdownCompletes == [Countdown |-> "Dungeon", PvPCountdown |-> "PvP", Victory |-> "Lobby"]

IsCountdownTick(e) == e.type = "CountdownTick"

\* C12: a countdown of N seconds broadcasts CountdownTick N as its phase is entered,
\* then each next lower number when the one-second wait set by the previous tick has
\* run out, down to 0, and the completion transition follows tick 0 in the same
\* handler; no phase is left by completion without tick 0
C12_CountdownTicks ==
    [][LET ticks == SelectSeq(events', IsCountdownTick)
           entered == phase' # phase /\ phase' \in DOMAIN CountdownSeconds
       IN  /\ Len(ticks) <= 1
           /\ entered => Len(ticks) = 1
           /\ Len(ticks) = 1 =>
                LET k == ticks[1].a
                IN  IF entered
                    THEN /\ k = CountdownSeconds[phase']
                         /\ countdownThread' = [active |-> TRUE, i |-> k, wait |-> SECOND,
                                                onComplete |-> CountdownCompletes[phase']]
                    ELSE /\ phase \in DOMAIN CountdownSeconds
                         /\ countdownThread.active
                         /\ countdownThread.wait = 0
                         /\ countdownThread.i = k + 1
                         /\ IF k > 0
                            THEN /\ phase' = phase
                                 /\ countdownThread' =
                                        [countdownThread EXCEPT !.i = k, !.wait = SECOND]
                            ELSE /\ phase' = CountdownCompletes[phase]
                                 /\ events'[1] = ticks[1]
                                 /\ HasEvent(events', "PhaseChanged", phase')
           /\ (phase \in DOMAIN CountdownSeconds /\ phase' = CountdownCompletes[phase])
                => HasEvent(events', "CountdownTick", 0)]_vars

\* PvP just entered by the completion of the PvP countdown
C12_Witness ==
    /\ phase = "PvP"
    /\ HasEvent(events, "CountdownTick", 0)
    /\ HasEvent(events, "PhaseChanged", "PvP")

\* C13: a request is accepted (lastAttackTime stamped, AttackEffect broadcast, the
\* arc damaged) only when at least PLAYER_ATTACK.cooldown / attackSpeed has passed
\* since the same player's previous accepted attack
C13_CooldownRespected ==
    [][\A p \in AllPlayers :
          Accepted(State, [playerStates |-> playerStates'], p)
            => sinceAttack[p] * getAttackSpeed(State, p) >= ATTACK_COOLDOWN * 100]_vars

\* what the LootService may spawn on the entity-death signal of an entity of this type
DropsAllowed(entityType) ==
    IF entityType = "Boss" THEN BOSS_DROP_COUNT.max
    ELSE IF entityType \in DOMAIN ENEMIES THEN 1
    ELSE 0

\* every LootSpawned of a handler follows an EntityDied of the same handler, within
\* the number of drops that death allows
RECURSIVE LootFollowsDeath(_, _)
LootFollowsDeath(evs, budget) ==
    IF evs = << >> THEN TRUE
    ELSE LET e == Head(evs)
         IN  IF e.type = "EntityDied" THEN LootFollowsDeath(Tail(evs), DropsAllowed(e.b))
             ELSE IF e.type = "LootSpawned"
                  THEN budget > 0 /\ LootFollowsDeath(Tail(evs), budget - 1)
             ELSE LootFollowsDeath(Tail(evs), budget)

IsLootSpawned(e) == e.type = "LootSpawned"

RECURSIVE DropsFrom(_, _)
DropsFrom(evs, k) ==
    IF k > Len(evs) \/ evs[k].type # "LootSpawned" THEN 0
    ELSE 1 + DropsFrom(evs, k + 1)

IsBossDeath(e) == e.type = "EntityDied" /\ e.b = "Boss"

NewEnemies == DOMAIN activeEnemies' \ DOMAIN activeEnemies

\* C16: enemy ids are unique over the session: every enemy and boss that is
\* registered holds an id that was handed out, an id handed out by a handler is
\* larger than every id handed out before it (also after despawnAllEnemies and in a
\* later round), a handler's spawns get distinct ids, and a spawn that fails for a
\* missing template hands out nothing
C16_EnemyIdsUnique ==
    /\ [](\A e \in DOMAIN activeEnemies : 1 <= e /\ e <= nextEnemyId)
    /\ [][/\ nextEnemyId' >= nextEnemyId
          /\ \A e \in NewEnemies : e > nextEnemyId
          /\ Cardinality(NewEnemies) = nextEnemyId' - nextEnemyId]_vars

C16_Witness ==
    /\ templates # AllTemplates
    /\ phase = "Dungeon" /\ currentRoomIndex = 1 /\ rooms[1].isCleared
    /\ activeEnemies = EmptyMap
    /\ nextEnemyId = 2

\* C18: the EntityId broadcast for an enemy is "enemy_" followed by its instance
\* number (the first enemy of a session is "enemy_1"), and the EntityId broadcast
\* for a player is "player_" followed by the player's UserId
C18_EntityIdFormat ==
    [][\A k \in 1 .. Len(events') :
          events'[k].type = "EntityDied"
            => events'[k].entityId
                 = (IF events'[k].b = "Player" THEN "player_" ELSE "enemy_")
                     \o ToString(events'[k].a)]_vars

\* the players who are in the game and alive at the end of a handler
AliveInGame == {p \in players' : p \in DOMAIN playerStates' /\ playerStates'[p].isAlive}

\* C17: when the phase becomes Victory, the winnerId of the PhaseChanged broadcast is
\* the UserId of the one player who is alive and still in the game, and it is absent
\* exactly when no player is alive
C17_WinnerIsAlive ==
    [][\A k \in 1 .. Len(events') :
          (events'[k].type = "PhaseChanged" /\ events'[k].a = "Victory")
            => IF AliveInGame = {} THEN events'[k].b = NoWinner
               ELSE AliveInGame = {events'[k].b}]_vars

\* the amounts that are not a number, are NaN, are infinite or are negative
InvalidAmounts ==
    {amount \in Amounts :
        \/ amount.type # "number"
        \/ amount.kind \in {"nan", "inf"}
        \/ amount.kind = "finite" /\ amount.v < 0}

IsStatMessage(e) == e.type \in {"StatsUpdated", "StatGained"}

\* C19: modifyStat called with an amount that is not a number, is NaN, is infinite
\* or is negative changes no stat and no health of any player and sends neither
\* StatsUpdated nor StatGained: so for every such call in every state, and so for
\* every call after which modifyStat has warned of an invalid amount
C19_InvalidAmountIgnored ==
    /\ [](\A p \in AllPlayers, stat \in StatNames, amount \in InvalidAmounts :
            LET r == modifyStat(State, p, stat, amount)
            IN  /\ r.playerStats = playerStats
                /\ r.playerStates = playerStates
                /\ SelectSeq(r.events, IsStatMessage) = << >>)
    /\ [][(\E k \in 1 .. Len(events') : events'[k].type = "Warn")
            => /\ playerStats' = playerStats
               /\ playerStates' = playerStates
               /\ SelectSeq(events', IsStatMessage) = << >>]_vars

C19_Witness ==
    \E p \in DOMAIN playerStats :
        /\ playerStats[p].maxHealth > BASE_STATS.maxHealth
        /\ events = << [type |-> "Warn", a |-> p, b |-> LuauNaN] >>

\* the players who are in the game and alive at the start of a handler
AliveBefore == {p \in players : p \in DOMAIN playerStates /\ playerStates[p].isAlive}

\* C20: during Dungeon or Boss, a handler that leaves no alive player in the game,
\* because the last alive player died or because the last alive player left, ends
\* with the phase Lobby
C20_NoAliveMeansLobby ==
    [][(phase \in {"Dungeon", "Boss"} /\ AliveBefore # {} /\ AliveInGame = {})
          => phase' = "Lobby"]_vars

\* the player who leaves in a PlayerRemoving step
Leavers == players \ players'

\* C21: when a player leaves, the check GameStateService runs for the departure does
\* not count the leaver as alive, in whichever order the PlayerRemoving connections
\* run: in Dungeon and Boss the phase becomes Lobby when no other player is alive,
\* in PvP it becomes Victory when at most one other player is alive
C21_LeaverNotCountedAlive ==
    [][\A p \in Leavers :
          LET others == AliveBefore \ {p}
          IN  /\ (phase \in {"Dungeon", "Boss"} /\ others = {}) => phase' = "Lobby"
              /\ (phase = "PvP" /\ Cardinality(others) <= 1) => phase' = "Victory"]_vars

\* the player who joins in a PlayerAdded step
Joiners == players' \ players

\* the state a handler ends in, with every tracked player but p dead
OthersDead(s, p) ==
    [s EXCEPT !.playerStates = [q \in DOMAIN @ |-> IF q = p THEN @[q]
                                                    ELSE [@[q] EXCEPT !.isAlive = FALSE]]]

\* C22: a player who joins while a round is in progress (the phase is neither Lobby
\* nor Countdown) is not counted as an alive participant of the round: getAlivePlayers
\* does not hold the joiner, with every other player dead checkAllPlayersDead returns
\* a Dungeon or Boss round to Lobby, and with at most one other player alive
\* checkPvPVictory declares Victory
C22_LateJoinerNotCounted ==
    [][\A p \in Joiners :
          phase \notin {"Lobby", "Countdown"}
            => /\ p \notin getAlivePlayers(State')
               /\ phase' \in {"Dungeon", "Boss"}
                    => checkAllPlayersDead(OthersDead(State', p)).phase = "Lobby"
               /\ (phase' = "PvP" /\ Cardinality(getAlivePlayers(State') \ {p}) <= 1)
                    => checkPvPVictory(State').phase = "Victory"]_vars

(***************************************************************************)
(* Places whose rooms are built from several parts.  The room layout of    *)
(* the place is fixed for a run of the server; SpecAnyRooms also starts    *)
(* the server in the place of the building guide, where each of the three  *)
(* rooms holds two parts tagged Room.                                      *)
(***************************************************************************)
RoomLayouts == {DefaultRoomParts, << 0, 0, 1, 1, 2, 2 >>}

InitAnyRooms == roomParts \in RoomLayouts /\ InitServices /\ templates = AllTemplates

SpecAnyRooms == InitAnyRooms /\ [][Next]_vars

\* C23: totalRooms is the number of distinct dungeon rooms of the place (the distinct
\* RoomIndex values among the parts tagged Room) clamped to MIN_ROOMS..MAX_ROOMS, and
\* every room index below totalRooms is the index of a room that exists.
C23_TotalRoomsCountsRooms ==
    /\ totalRooms = Clamp(Cardinality(ExistingRooms(roomParts)), MIN_ROOMS, MAX_ROOMS)
    /\ \A i \in 0 .. (totalRooms - 1) : i \in ExistingRooms(roomParts)

\* C24: once the services have started, totalRooms lies in MIN_ROOMS..MAX_ROOMS, the
\* rooms list has exactly totalRooms entries, and currentRoomIndex is an index of it.
C24_RoomBounds ==
    /\ MIN_ROOMS <= totalRooms /\ totalRooms <= MAX_ROOMS
    /\ Len(rooms) = totalRooms
    /\ 0 <= currentRoomIndex /\ currentRoomIndex < totalRooms

\* a place with more Room parts than MAX_ROOMS, and the party standing in the last
\* room of the list
C24_Witness ==
    /\ Len(roomParts) > MAX_ROOMS
    /\ phase = "Dungeon"
    /\ currentRoomIndex = totalRooms - 1
    /\ totalRooms = MAX_ROOMS

====
